---- MODULE Spec2Model ----
(***************************************************************************)
(* Notification scheduling and delivery engine of snapTask-api             *)
(* (src/src/services/notificationScheduler.service.ts and the WhatsApp     *)
(* gateway it calls).                                                      *)
(*                                                                         *)
(* Time is counted in minutes of local time since midnight of day 0: the   *)
(* quiet-hours test reads getHours()*60 + getMinutes(), and every delay of *)
(* the engine is a whole number of minutes.  Every `new Date()` read by    *)
(* one handler step is the same instant `now`.                             *)
(***************************************************************************)
EXTENDS Integers, Sequences, FiniteSets, TLC

VARIABLES
    now,        \* the wall clock, minutes since local midnight of day 0
    users,      \* the User collection: id -> document
    tasks,      \* the Task collection: id -> document
    queue,      \* the NotificationQueue collection, in insertion order
    pass,       \* per processor run: position in processNotificationQueue
    last        \* what the most recent handler step did (gateway call, in-memory document)

vars == <<now, users, tasks, queue, pass, last>>

----------------------------------------------------------------------------
(* Bounds of the model                                                     *)

MaxDay == 1            \* days 0..MaxDay are explored
MaxQueue == 2          \* the collection holds at most this many entries

(* Program constants                                                       *)

MAX_NOTIFICATIONS_PER_DAY == 1   \* process.env.MAX_NOTIFICATIONS_PER_DAY (default '10'); run with 1
TASK_REMINDER_HOURS == 24
RetryCeiling == 3
BatchLimit == 50
BackoffBase == 5
ImmediateWindow == 1             \* 60000 ms
MinutesPerDay == 1440
MorningHour == 8

UserIds == {"u1", "u2"}
TaskIds == {"t1", "t2"}
PassIds == {1, 2}
NoTask == "none"
NoTime == -1
NoError == ""

(* The instants of a day at which the clock is observed.                   *)
TimesOfDay == {479, 840, 1410}
Instants == {d * MinutesPerDay + t : d \in 0..MaxDay, t \in TimesOfDay}

----------------------------------------------------------------------------
(* Dates                                                                   *)

\* today.setHours(0, 0, 0, 0)
startOfDay(t) == (t \div MinutesPerDay) * MinutesPerDay

\* now.getHours() * 60 + now.getMinutes()
minuteOfDay(t) == t % MinutesPerDay

\* tomorrow.setDate(tomorrow.getDate() + 1); tomorrow.setHours(8, 0, 0, 0)
tomorrowMorning(t) == startOfDay(t) + MinutesPerDay + MorningHour * 60

\* "HH:MM" is kept as the pair <<HH, MM>> that split(':').map(Number) yields;
\* an absent string is the empty tuple.
NoHHMM == <<>>
parseMinutes(s) == s[1] * 60 + s[2]

----------------------------------------------------------------------------
(* Quiet hours                                                             *)

\* the quiet-hours test without the branch for a window that spans midnight
isQuietHoursSameDay(user, t) ==
    /\ user.quietHoursStart # NoHHMM
    /\ user.quietHoursEnd # NoHHMM
    /\ minuteOfDay(t) >= parseMinutes(user.quietHoursStart)
    /\ minuteOfDay(t) < parseMinutes(user.quietHoursEnd)

isQuietHours(user, t) ==
    IF user.quietHoursStart = NoHHMM \/ user.quietHoursEnd = NoHHMM
    THEN FALSE
    ELSE LET currentTime == minuteOfDay(t)
             quietStart == parseMinutes(user.quietHoursStart)
             quietEnd == parseMinutes(user.quietHoursEnd)
         IN  IF quietStart > quietEnd
             THEN currentTime >= quietStart \/ currentTime < quietEnd
             ELSE currentTime >= quietStart /\ currentTime < quietEnd

\* the end of the quiet window taken on the current day, whether or not it
\* has passed
calculateScheduleTimeToday(user, preferredTime, t) ==
    IF ~isQuietHours(user, t)
    THEN IF preferredTime = NoTime THEN t ELSE preferredTime
    ELSE startOfDay(t) + parseMinutes(user.quietHoursEnd)

\* preferredTime is NoTime when the argument is omitted
calculateScheduleTime(user, preferredTime, t) ==
    LET scheduleTime == IF preferredTime = NoTime THEN t ELSE preferredTime
    IN  IF ~isQuietHours(user, t) THEN scheduleTime
        ELSE IF user.quietHoursEnd = NoHHMM THEN scheduleTime
        ELSE LET endTime == startOfDay(t) + parseMinutes(user.quietHoursEnd)
             IN  IF endTime < t THEN endTime + MinutesPerDay ELSE endTime

----------------------------------------------------------------------------
(* Daily pacing                                                            *)

getTodayNotificationCount(q, userId, t) ==
    Cardinality({i \in 1..Len(q) :
        /\ q[i].user = userId
        /\ q[i].status = "sent"
        /\ q[i].sentAt # NoTime
        /\ q[i].sentAt >= startOfDay(t)
        /\ q[i].sentAt < startOfDay(t) + MinutesPerDay})

hasReachedDailyLimit(q, userId, t) ==
    getTodayNotificationCount(q, userId, t) >= MAX_NOTIFICATIONS_PER_DAY

----------------------------------------------------------------------------
(* Documents                                                               *)

\* new NotificationQueue({..., status: 'pending', retryCount: 0}); save()
queueNotification(q, userId, type, message, scheduledFor, taskId) ==
    Append(q, [user |-> userId, type |-> type, taskId |-> taskId,
               message |-> message, scheduledFor |-> scheduledFor,
               status |-> "pending", retryCount |-> 0,
               sentAt |-> NoTime, error |-> NoError])

mkUser(verified, phone, enabled, quietStart, quietEnd) ==
    [exists |-> TRUE, phoneVerified |-> verified, phoneNumber |-> phone,
     whatsappEnabled |-> enabled, taskReminders |-> TRUE, statusUpdates |-> TRUE,
     dailySummary |-> TRUE, quietHoursStart |-> quietStart, quietHoursEnd |-> quietEnd]

ProfileOn == mkUser(TRUE, "ok", TRUE, NoHHMM, NoHHMM)
ProfileNight == mkUser(TRUE, "ok", TRUE, <<22, 0>>, <<8, 0>>)
ProfileOff == mkUser(TRUE, "ok", FALSE, NoHHMM, NoHHMM)
ProfileNoPhone == mkUser(TRUE, "corrupt", TRUE, NoHHMM, NoHHMM)
ProfileGone == [ProfileOn EXCEPT !.exists = FALSE]
ProfileUnverified == mkUser(FALSE, "ok", TRUE, NoHHMM, NoHHMM)
ProfileMorning == mkUser(TRUE, "ok", TRUE, <<7, 0>>, <<9, 0>>)

NoLast == [op |-> "none", entry |-> 0, user |-> "u1", called |-> FALSE,
           result |-> "none", quiet |-> FALSE, aborted |-> FALSE,
           doc |-> <<>>, raised |-> FALSE, response |-> "none"]

IdlePass == [pc |-> "idle", now |-> 0, sel |-> <<>>, pos |-> 0, snap |-> <<>>]

----------------------------------------------------------------------------
(* Delivery gateway (WhatsAppService)                                      *)

\* getUserPhoneNumber: null when phoneNumber is absent or decrypt() throws
getUserPhoneNumber(user) == IF user.phoneNumber = "ok" THEN "ok" ELSE "null"

canSendNotification(user) ==
    user.phoneVerified /\ user.whatsappEnabled /\ getUserPhoneNumber(user) # "null"

\* sendMessage after its own retry loop: "ok" (true), "fail" (false), or "throw"
\* (provider error 21608, rethrown as an Error)
sendMessage == {"ok", "fail", "throw"}

\* sendTaskReminder / sendStatusUpdate / sendDailySummary: "skipped" is the
\* `return false` taken before sendMessage is reached
gatewayResults(user, kindEnabled) ==
    IF ~canSendNotification(user) \/ ~kindEnabled THEN {"skipped"} ELSE sendMessage

----------------------------------------------------------------------------
(* Message rendering.  No step of the engine reads a stored message; the    *)
(* rendered text is kept as its title and the task or user it is about.    *)

formatTaskReminderMessage(taskId) == <<"Task Reminder", taskId>>

formatStatusChangeMessage(taskId, newStatus) ==
    <<IF newStatus = "completed" THEN "Task Completed!"
      ELSE IF newStatus = "in-progress" THEN "Task Started"
      ELSE "Task Status Updated", taskId>>

formatDailySummaryMessage(userId) == <<"Good Morning", userId>>

----------------------------------------------------------------------------
(* Producers                                                               *)

\* The order in which Task.find and User.find return their documents.
TaskOrder == <<"t1", "t2">>
UserOrder == <<"u1", "u2">>

\* the duplicate check finding nothing
existingReminderMissed(q, userId, taskId) == FALSE

\* NotificationQueue.findOne({user, taskId, type: 'task_reminder', status: 'pending'})
existingReminder(q, userId, taskId) ==
    \E i \in 1..Len(q) :
        /\ q[i].user = userId
        /\ q[i].taskId = taskId
        /\ q[i].type = "task_reminder"
        /\ q[i].status = "pending"

\* Task.find({dueDate: {$gte: now, $lte: reminderWindow}, status: {$in: [...]}})
dueForReminder(task, t) ==
    /\ task.exists
    /\ task.dueDate >= t
    /\ task.dueDate <= t + TASK_REMINDER_HOURS * 60
    /\ task.status \in {"pending", "in-progress"}

\* the loop body with `continue` alone in the daily-limit branch, as the
\* digest sweep has it
remindTaskDropsAtLimit(q, us, ts, taskId, t) ==
    LET task == ts[taskId]
        user == us[task.user]
    IN  IF ~user.exists THEN q
        ELSE IF ~user.phoneVerified \/ ~user.whatsappEnabled THEN q
        ELSE IF ~user.taskReminders THEN q
        ELSE IF existingReminder(q, task.user, taskId) THEN q
        ELSE IF hasReachedDailyLimit(q, task.user, t) THEN q
        ELSE queueNotification(q, task.user, "task_reminder",
                               formatTaskReminderMessage(taskId),
                               calculateScheduleTime(user, NoTime, t), taskId)

\* One iteration of the loop of scheduleTaskReminders over a found task.
remindTask(q, us, ts, taskId, t) ==
    LET task == ts[taskId]
        user == us[task.user]
        message == formatTaskReminderMessage(taskId)
    IN  IF ~user.exists THEN q
        ELSE IF ~user.phoneVerified \/ ~user.whatsappEnabled THEN q
        ELSE IF ~user.taskReminders THEN q
        ELSE IF existingReminder(q, task.user, taskId) THEN q
        ELSE IF hasReachedDailyLimit(q, task.user, t)
             THEN queueNotification(q, task.user, "task_reminder", message,
                                    tomorrowMorning(t), taskId)
        ELSE queueNotification(q, task.user, "task_reminder", message,
                               calculateScheduleTime(user, NoTime, t), taskId)

RECURSIVE scheduleTaskReminders(_, _, _, _, _)
scheduleTaskReminders(q, us, ts, order, t) ==
    IF order = <<>> THEN q
    ELSE LET q1 == IF dueForReminder(ts[Head(order)], t)
                   THEN remindTask(q, us, ts, Head(order), t)
                   ELSE q
         IN  scheduleTaskReminders(q1, us, ts, Tail(order), t)

\* NotificationQueue.findOne({user, type: 'daily_summary',
\*   status: {$in: ['pending', 'sent']}, scheduledFor: {$gte: today, $lt: tomorrow}})
existingSummary(q, userId, t) ==
    \E i \in 1..Len(q) :
        /\ q[i].user = userId
        /\ q[i].type = "daily_summary"
        /\ q[i].status \in {"pending", "sent"}
        /\ q[i].scheduledFor >= startOfDay(t)
        /\ q[i].scheduledFor < startOfDay(t) + MinutesPerDay

\* One iteration of the loop of scheduleDailySummaries over a found user.
summarizeUser(q, us, ts, userId, t) ==
    LET user == us[userId]
    IN  IF hasReachedDailyLimit(q, userId, t) THEN q
        ELSE IF existingSummary(q, userId, t) THEN q
        ELSE queueNotification(q, userId, "daily_summary",
                 formatDailySummaryMessage(userId),
                 calculateScheduleTime(user, startOfDay(t) + MorningHour * 60, t),
                 NoTask)

\* the user query without its filter on the master switch
digestAnyUser(user) == user.exists /\ user.dailySummary

\* User.find({phoneVerified: true, whatsappEnabled: true, dailySummary: true})
digestEligible(user) ==
    user.exists /\ user.phoneVerified /\ user.whatsappEnabled /\ user.dailySummary

RECURSIVE scheduleDailySummaries(_, _, _, _, _)
scheduleDailySummaries(q, us, ts, order, t) ==
    IF order = <<>> THEN q
    ELSE LET q1 == IF digestEligible(us[Head(order)])
                   THEN summarizeUser(q, us, ts, Head(order), t)
                   ELSE q
         IN  scheduleDailySummaries(q1, us, ts, Tail(order), t)

\* scheduleStatusChangeNotification: "none" (an early return), "send" (the
\* synchronous gateway call) or "queue"
statusChangeDecision(q, us, ts, userId, taskId, t) ==
    LET user == us[userId]
    IN  IF ~user.exists THEN "none"
        ELSE IF ~user.phoneVerified \/ ~user.whatsappEnabled THEN "none"
        ELSE IF ~user.statusUpdates THEN "none"
        ELSE IF hasReachedDailyLimit(q, userId, t) THEN "none"
        ELSE IF ~ts[taskId].exists THEN "none"
        ELSE LET scheduleTime == calculateScheduleTime(user, NoTime, t)
                 isImmediate == scheduleTime <= t + ImmediateWindow
             IN  IF isImmediate THEN "send" ELSE "queue"

\* an error of the synchronous send or of a lookup leaving
\* scheduleStatusChangeNotification as a rejected promise
statusChangeRethrows(outcome) == outcome \in {"throw", "lookupFailed"}

\* try { ... } catch (error) { console.error(...) } around the whole body of
\* scheduleStatusChangeNotification: whether the call rejects, given what
\* happened inside ("lookupFailed": User.findById or Task.findById threw)
statusChangeRaises(outcome) == FALSE

\* markAsCompleted / markAsInProgress after the task is updated: the producer
\* is started without await and with a .catch, then res.status(200)
controllerResponse(raised) == "200"

----------------------------------------------------------------------------
(* Queue processor                                                         *)

\* find({status: 'pending', scheduledFor: {$lte: now}, retryCount: {$lt: 3}})
dueEntries(q, t) ==
    {i \in 1..Len(q) : /\ q[i].status = "pending"
                       /\ q[i].scheduledFor <= t
                       /\ q[i].retryCount < RetryCeiling}

RECURSIVE sortedOrders(_, _)
\* .sort({scheduledFor: 1}): every order of the entries D that is
\* non-decreasing in scheduledFor (entries with equal scheduledFor come in any
\* order)
sortedOrders(q, D) ==
    IF D = {} THEN {<<>>}
    ELSE LET first == {i \in D : \A j \in D : q[i].scheduledFor <= q[j].scheduledFor}
         IN  UNION {{<<i>> \o s : s \in sortedOrders(q, D \ {i})} : i \in first}

\* the query without its limit
selectionsUnlimited(q, t) == sortedOrders(q, dueEntries(q, t))

\* .sort({scheduledFor: 1}).limit(50): the due entries in order, cut to the
\* batch limit
selections(q, t) ==
    LET D == dueEntries(q, t)
        n == Cardinality(D)
        k == IF n < BatchLimit THEN n ELSE BatchLimit
    IN  {SubSeq(s, 1, k) : s \in sortedOrders(q, D)}

\* the query without .lean(): documents, whose save() persists
hydratedQuery == FALSE

\* .lean(): the query returns plain objects, which carry no document methods
leanQuery == TRUE

\* notification.save() on an object the query returned: persists the object
\* when it is a document, throws a TypeError when it is a plain object
save(q, i, doc) ==
    IF leanQuery THEN [threw |-> TRUE, q |-> q]
    ELSE [threw |-> FALSE, q |-> [q EXCEPT ![i] = doc]]

\* the body of the inner catch: retryCount += 1, error = error.message,
\* status 'failed' from the third failure on
catchBlock(doc, message) ==
    LET c == doc.retryCount + 1
    IN  [doc EXCEPT !.retryCount = c, !.error = message,
                    !.status = IF c >= RetryCeiling THEN "failed" ELSE @]

\* settle with the write of the catch block persisting (an update by id
\* in place of save()): what a deferral or a failed send has left in memory,
\* counted once more as a failure, reaches the collection
settleCatchPersists(q, i, doc, threw, message) ==
    LET doc2 == catchBlock(doc, IF threw THEN message ELSE "save is not a function")
    IN  [q |-> [q EXCEPT ![i] = doc2], doc |-> doc2, aborted |-> FALSE]

\* settle writing every handled entry back as sent, whatever branch the
\* iteration took
settleSentUnchecked(q, i, doc, threw, message) ==
    LET doc2 == [doc EXCEPT !.status = "sent",
                            !.sentAt = IF @ = NoTime THEN q[i].scheduledFor ELSE @]
    IN  [q |-> [q EXCEPT ![i] = doc2], doc |-> doc2, aborted |-> FALSE]

\* What one loop iteration leaves behind once the try block has reached its
\* save() with the in-memory object `doc` (threw = FALSE) or has thrown before
\* it (threw = TRUE, with `message`).  aborted: the save() of the catch block
\* threw as well, which leaves the loop and rejects the run.
settle(q, i, doc, threw, message) ==
    LET s1 == save(q, i, doc)
    IN  IF ~threw /\ ~s1.threw
        THEN [q |-> s1.q, doc |-> doc, aborted |-> FALSE]
        ELSE LET doc2 == catchBlock(doc, IF threw THEN message ELSE "save is not a function")
                 s2 == save(q, i, doc2)
             IN  [q |-> s2.q, doc |-> doc2, aborted |-> s2.threw]

\* Lines 419-476 of one loop iteration, up to a gateway call: the branch
\* taken and the in-memory object it has produced.
beforeSend(q, us, ts, n, t) ==
    LET user == us[n.user]
        taskFound == n.taskId # NoTask /\ ts[n.taskId].exists
    IN  IF ~user.exists
        THEN [branch |-> "noUser",
              doc |-> [n EXCEPT !.status = "failed", !.error = "User not found"]]
        ELSE IF ~user.phoneVerified \/ ~user.whatsappEnabled
        THEN [branch |-> "disabled",
              doc |-> [n EXCEPT !.status = "failed", !.error = "Notifications disabled"]]
        ELSE IF isQuietHours(user, t)
        THEN [branch |-> "quiet",
              doc |-> [n EXCEPT !.scheduledFor = calculateScheduleTime(user, NoTime, t)]]
        ELSE IF getTodayNotificationCount(q, n.user, t) >= MAX_NOTIFICATIONS_PER_DAY
        THEN [branch |-> "limit",
              doc |-> [n EXCEPT !.scheduledFor = tomorrowMorning(t)]]
        ELSE IF n.type = "task_reminder" /\ taskFound
        THEN [branch |-> "sendTaskReminder", doc |-> n]
        ELSE IF n.type = "daily_summary"
        THEN [branch |-> "sendDailySummary", doc |-> n]
        ELSE IF n.type = "status_change" /\ taskFound
        THEN [branch |-> "statusChange",
              doc |-> [n EXCEPT !.status = "sent", !.sentAt = t]]
        ELSE [branch |-> "noSend", doc |-> n]

\* the success branch marking the entry sent without stamping it
afterSendNoStamp(n, success, passNow, t) ==
    IF success
    THEN [n EXCEPT !.status = "sent"]
    ELSE LET c == n.retryCount + 1
         IN  IF c >= RetryCeiling
             THEN [n EXCEPT !.retryCount = c, !.status = "failed",
                            !.error = "Max retry attempts reached"]
             ELSE [n EXCEPT !.retryCount = c,
                            !.scheduledFor = passNow + (2 ^ c) * BackoffBase]

\* Lines 478-495: the in-memory object after the gateway has answered
\* success (true) or not; passNow is the `now` read when the run started.
afterSend(n, success, passNow, t) ==
    IF success
    THEN [n EXCEPT !.status = "sent", !.sentAt = t]
    ELSE LET c == n.retryCount + 1
         IN  IF c >= RetryCeiling
             THEN [n EXCEPT !.retryCount = c, !.status = "failed",
                            !.error = "Max retry attempts reached"]
             ELSE [n EXCEPT !.retryCount = c,
                            !.scheduledFor = passNow + (2 ^ c) * BackoffBase]

\* the per-kind switch the gateway method reads
kindEnabled(user, type) ==
    IF type = "task_reminder" THEN user.taskReminders ELSE user.dailySummary

\* The run moves to its next entry, ends, or is rejected.
advance(P, aborted) ==
    IF aborted \/ P.pos >= Len(P.sel) THEN IdlePass
    ELSE [P EXCEPT !.pc = "loop", !.pos = P.pos + 1]

NoPassRunning == \A p \in PassIds : pass[p].pc = "idle"

----------------------------------------------------------------------------
Init ==
    /\ now = 479
    /\ users \in {us \in [UserIds -> {ProfileOn, ProfileNight, ProfileOff}] :
                      /\ us["u1"] # ProfileOff
                      /\ us["u2"] # ProfileNight}
    /\ tasks = [t \in TaskIds |->
                  [exists |-> TRUE, user |-> IF t = "t1" THEN "u1" ELSE "u2",
                   status |-> "pending",
                   dueDate |-> IF t = "t1" THEN 1080 ELSE 1440 + 720]]
    /\ queue = <<>>
    /\ pass = [p \in PassIds |-> IdlePass]
    /\ last = NoLast

\* System clock.
Tick ==
    /\ NoPassRunning
    /\ \E t \in Instants : t > now /\ now' = t
    /\ last' = NoLast
    /\ UNCHANGED <<users, tasks, queue, pass>>

\* POST /api/cron/task-reminders
ReminderSweep ==
    /\ NoPassRunning
    /\ LET q1 == scheduleTaskReminders(queue, users, tasks, TaskOrder, now)
       IN  /\ Len(q1) <= MaxQueue
           /\ queue' = q1
    /\ last' = [NoLast EXCEPT !.op = "reminders", !.entry = Len(queue)]
    /\ UNCHANGED <<now, users, tasks, pass>>

\* POST /api/cron/daily-summaries
DigestSweep ==
    /\ NoPassRunning
    /\ LET q1 == scheduleDailySummaries(queue, users, tasks, UserOrder, now)
       IN  /\ Len(q1) <= MaxQueue
           /\ queue' = q1
    /\ last' = [NoLast EXCEPT !.op = "digests", !.entry = Len(queue)]
    /\ UNCHANGED <<now, users, tasks, pass>>

\* markAsCompleted / markAsInProgress of the task controller, with the
\* scheduleStatusChangeNotification call they start.
StatusChange(taskId, newStatus) ==
    /\ NoPassRunning
    /\ tasks[taskId].exists
    /\ LET userId == tasks[taskId].user
           oldStatus == tasks[taskId].status
           ts1 == [tasks EXCEPT ![taskId].status = newStatus]
           decision == IF oldStatus # newStatus
                       THEN statusChangeDecision(queue, users, ts1, userId, taskId, now)
                       ELSE "none"
           quiet == users[userId].exists /\ isQuietHours(users[userId], now)
           done(called, result) ==
               [NoLast EXCEPT !.op = "status", !.user = userId, !.called = called,
                              !.result = result, !.quiet = quiet,
                              !.raised = statusChangeRaises(result),
                              !.response = controllerResponse(statusChangeRaises(result))]
       IN  /\ tasks' = ts1
           /\ \/ /\ oldStatus # newStatus
                 /\ last' = done(FALSE, "lookupFailed")
                 /\ UNCHANGED queue
              \/ CASE decision = "send" ->
                        /\ \E r \in gatewayResults(users[userId], users[userId].statusUpdates) :
                               last' = done(TRUE, r)
                        /\ UNCHANGED queue
                   [] decision = "queue" ->
                        /\ Len(queue) < MaxQueue
                        /\ queue' = queueNotification(queue, userId, "status_change",
                                        formatStatusChangeMessage(taskId, newStatus),
                                        calculateScheduleTime(users[userId], NoTime, now), taskId)
                        /\ last' = done(FALSE, "none")
                   [] OTHER ->
                        /\ last' = done(FALSE, "none")
                        /\ UNCHANGED queue
    /\ UNCHANGED <<now, users, pass>>

\* processNotificationQueue, from its start to the query result.  overlap:
\* whether a run may start while another is in progress.
StartPass(p, overlap) ==
    /\ pass[p].pc = "idle"
    /\ overlap \/ NoPassRunning
    /\ \E sel \in selections(queue, now) :
          pass' = [pass EXCEPT ![p] =
                     IF sel = <<>> THEN IdlePass
                     ELSE [pc |-> "loop", now |-> now, sel |-> sel, pos |-> 1,
                           snap |-> queue]]
    /\ UNCHANGED <<now, users, tasks, queue, last>>

\* One loop iteration up to its first gateway call, or to its end when it
\* makes none.
Dispatch(p) ==
    /\ pass[p].pc = "loop"
    /\ LET P == pass[p]
           i == P.sel[P.pos]
           n == P.snap[i]
           b == beforeSend(queue, users, tasks, n, now)
           quiet == users[n.user].exists /\ isQuietHours(users[n.user], now)
       IN  IF b.branch \in {"sendTaskReminder", "sendDailySummary"}
           THEN /\ pass' = [pass EXCEPT ![p].pc = "sending"]
                /\ last' = [NoLast EXCEPT !.op = "dispatch", !.entry = i,
                               !.user = n.user, !.called = TRUE, !.quiet = quiet]
                /\ UNCHANGED queue
           ELSE LET doc == IF b.branch = "noSend"
                           THEN afterSend(b.doc, FALSE, P.now, now)
                           ELSE b.doc
                    r == settle(queue, i, doc, FALSE, "")
                IN  /\ queue' = r.q
                    /\ pass' = [pass EXCEPT ![p] = advance(P, r.aborted)]
                    /\ last' = [op |-> "process", entry |-> i, user |-> n.user,
                                called |-> FALSE, result |-> b.branch, quiet |-> quiet,
                                aborted |-> r.aborted, doc |-> r.doc,
                                raised |-> r.aborted, response |-> "none"]
    /\ UNCHANGED <<now, users, tasks>>

\* The gateway answers; the rest of the loop iteration.
Complete(p) ==
    /\ pass[p].pc = "sending"
    /\ LET P == pass[p]
           i == P.sel[P.pos]
           n == P.snap[i]
           user == users[n.user]
       IN  \E g \in gatewayResults(user, kindEnabled(user, n.type)) :
              LET r == IF g = "throw"
                       THEN settle(queue, i, n, TRUE, "trial account")
                       ELSE settle(queue, i, afterSend(n, g = "ok", P.now, now), FALSE, "")
              IN  /\ queue' = r.q
                  /\ pass' = [pass EXCEPT ![p] = advance(P, r.aborted)]
                  /\ last' = [op |-> "process", entry |-> i, user |-> n.user,
                              called |-> TRUE, result |-> g,
                              quiet |-> isQuietHours(user, now),
                              aborted |-> r.aborted, doc |-> r.doc,
                                raised |-> r.aborted, response |-> "none"]
    /\ UNCHANGED <<now, users, tasks>>

\* updateNotificationPreferences / updatePhoneNumber of the notification
\* controller, and the removal of a user document.
SetProfile(u, profile) ==
    /\ NoPassRunning
    /\ users[u] # profile
    /\ users' = [users EXCEPT ![u] = profile]
    /\ last' = NoLast
    /\ UNCHANGED <<now, tasks, queue, pass>>

\* deleteTask of the task controller
DeleteTask(taskId) ==
    /\ NoPassRunning
    /\ tasks[taskId].exists
    /\ tasks' = [tasks EXCEPT ![taskId].exists = FALSE]
    /\ last' = NoLast
    /\ UNCHANGED <<now, users, queue, pass>>

Next ==
    \/ Tick
    \/ ReminderSweep
    \/ DigestSweep
    \/ \E s \in {"in-progress", "completed"} : StatusChange("t1", s)
    \/ SetProfile("u1", ProfileOn)
    \/ SetProfile("u1", ProfileNight)
    \/ SetProfile("u1", ProfileOff)
    \/ SetProfile("u1", ProfileNoPhone)
    \/ SetProfile("u1", ProfileGone)
    \/ DeleteTask("t1")
    \/ StartPass(1, FALSE)
    \/ Dispatch(1)
    \/ Complete(1)

Spec == Init /\ [][Next]_vars

\* Runs of the processor may overlap: POST /api/cron/process-queue starts a
\* run per request, and a run yields at every await.
NextConc ==
    \/ Tick
    \/ ReminderSweep
    \/ DigestSweep
    \/ \E s \in {"in-progress", "completed"} : StatusChange("t1", s)
    \/ SetProfile("u1", ProfileNight)
    \/ \E p \in PassIds : StartPass(p, TRUE)
    \/ \E p \in PassIds : Dispatch(p)
    \/ \E p \in PassIds : Complete(p)

SpecConc == Init /\ [][NextConc]_vars

\* The engine under changes of the master switch and of the quiet hours:
\* updatePhoneNumber leaves the phone unverified, updateNotificationPreferences
\* turns WhatsApp off and on and moves the quiet hours.
NextPrefs ==
    \/ Tick
    \/ ReminderSweep
    \/ DigestSweep
    \/ \E s \in {"in-progress", "completed"} : StatusChange("t1", s)
    \/ SetProfile("u1", ProfileOn)
    \/ SetProfile("u1", ProfileOff)
    \/ SetProfile("u1", ProfileUnverified)
    \/ SetProfile("u1", ProfileMorning)
    \/ StartPass(1, FALSE)
    \/ Dispatch(1)
    \/ Complete(1)

SpecPrefs == Init /\ [][NextPrefs]_vars

----------------------------------------------------------------------------
(* The quiet-hours functions on their own: every minute of the days         *)
(* explored, against quiet hours that are absent, empty (start = end),      *)
(* within one day, and across midnight.                                     *)

QuietSettings == {NoHHMM, <<0, 0>>, <<7, 30>>, <<8, 0>>, <<22, 0>>, <<23, 59>>}

InitQuiet ==
    /\ now \in 0..((MaxDay + 1) * MinutesPerDay - 1)
    /\ \E s, e \in QuietSettings :
          users = [u \in UserIds |-> mkUser(TRUE, "ok", TRUE, s, e)]
    /\ tasks = [t \in TaskIds |->
                  [exists |-> TRUE, user |-> IF t = "t1" THEN "u1" ELSE "u2",
                   status |-> "pending",
                   dueDate |-> IF t = "t1" THEN 1080 ELSE 1440 + 720]]
    /\ queue = <<>>
    /\ pass = [p \in PassIds |-> IdlePass]
    /\ last = NoLast

\* isQuietHours(user)
EvalQuietHours ==
    /\ last' = [NoLast EXCEPT !.op = "isQuietHours",
                              !.quiet = isQuietHours(users["u1"], now)]
    /\ UNCHANGED <<now, users, tasks, queue, pass>>

\* calculateScheduleTime(user) and calculateScheduleTime(user, today 08:00)
EvalScheduleTime ==
    /\ \E preferredTime \in {NoTime, startOfDay(now) + MorningHour * 60} :
          last' = [NoLast EXCEPT !.op = "calculateScheduleTime",
                                 !.entry = calculateScheduleTime(users["u1"], preferredTime, now),
                                 !.doc = <<preferredTime>>]
    /\ UNCHANGED <<now, users, tasks, queue, pass>>

NextQuiet == EvalQuietHours \/ EvalScheduleTime

SpecQuiet == InitQuiet /\ [][NextQuiet]_vars

----------------------------------------------------------------------------
(* The reminder sweep as a function of the collections it reads: it starts  *)
(* from a queue that is empty or holds one delivered entry, at any instant.  *)

\* a document of the collection with status 'sent' (schema 17-63)
sentEntry(userId, at) ==
    [user |-> userId, type |-> "daily_summary", taskId |-> NoTask,
     message |-> formatDailySummaryMessage(userId), scheduledFor |-> at,
     status |-> "sent", retryCount |-> 0, sentAt |-> at, error |-> NoError]

InitSweep ==
    /\ now \in Instants
    /\ users \in {us \in [UserIds -> {ProfileOn, ProfileNight, ProfileOff}] :
                      us["u2"] = ProfileOn}
    /\ tasks = [t \in TaskIds |->
                  [exists |-> TRUE, user |-> IF t = "t1" THEN "u1" ELSE "u2",
                   status |-> "pending",
                   dueDate |-> IF t = "t1" THEN 1080 ELSE 1440 + 720]]
    /\ queue \in {<<>>} \cup {<<sentEntry(u, at)>> : u \in UserIds,
                                  at \in {i \in Instants : i <= now}}
    /\ pass = [p \in PassIds |-> IdlePass]
    /\ last = NoLast

NextSweep == Tick \/ ReminderSweep

SpecSweep == InitSweep /\ [][NextSweep]_vars
----------------------------------------------------------------------------
(* Properties                                                              *)

\* entries of user u marked sent with sentAt inside day d
sentInDay(q, u, d) ==
    {i \in 1..Len(q) : /\ q[i].user = u
                       /\ q[i].status = "sent"
                       /\ q[i].sentAt >= d * MinutesPerDay
                       /\ q[i].sentAt < (d + 1) * MinutesPerDay}

Days == 0..(MaxDay + 2)

\* the step is one loop iteration of a processor run that has come to its end
IterationEnds == \E p \in PassIds : pass[p].pc \in {"loop", "sending"} /\ last'.op = "process"

C3_OnePendingReminder ==
    \A u \in UserIds, t \in TaskIds :
        Cardinality({i \in 1..Len(queue) : /\ queue[i].user = u
                                           /\ queue[i].taskId = t
                                           /\ queue[i].type = "task_reminder"
                                           /\ queue[i].status = "pending"}) <= 1

\* a sweep has just run over a task that is due, whose user is eligible and
\* whose reminder is pending, and has added nothing
C3_Witness ==
    /\ last.op = "reminders" /\ last.entry = Len(queue)
    /\ dueForReminder(tasks["t1"], now)
    /\ users["u1"].exists /\ users["u1"].phoneVerified /\ users["u1"].whatsappEnabled
    /\ existingReminder(queue, "u1", "t1")

C5_BackoffStored ==
    (last.op = "process" /\ last.called /\ last.result = "fail")
        => LET e == queue[last.entry]
           IN  /\ e.retryCount >= 1
               /\ e.retryCount < RetryCeiling
                    => /\ e.status = "pending"
                       /\ e.scheduledFor = now + (2 ^ e.retryCount) * BackoffBase
               /\ e.retryCount = RetryCeiling => e.status = "failed"

\* C6: an entry whose user is inside the quiet window at the time of the run
\* is not handed to the gateway; it gets scheduledFor = the next end of the
\* quiet window and stays pending.
C6_QuietDeferralStored ==
    (last.op \in {"dispatch", "process"} /\ last.quiet)
        => /\ ~last.called
           /\ queue[last.entry].status = "pending"
           /\ queue[last.entry].scheduledFor =
                 calculateScheduleTime(users[last.user], NoTime, now)
           /\ ~isQuietHours(users[last.user], queue[last.entry].scheduledFor)
           /\ queue[last.entry].scheduledFor > now

\* C7: the status-change producer calls the gateway only when the user is
\* not quiet; whenever the user is quiet, the last minute of the window
\* included, it makes no gateway call.
C7_NoSyncSendWhenQuiet ==
    (last.op = "status" /\ last.quiet) => ~last.called

C10_IneligibleFailsStored ==
    (last.op = "process" /\ last.result \in {"noUser", "disabled", "skipped", "noSend"})
        => /\ queue[last.entry].status = "failed"
           /\ queue[last.entry].error # NoError
           /\ queue[last.entry].retryCount = 0

\* C11: when the gateway reports the permanent provider error (sendMessage
\* throws), the run sets the entry to 'failed' with the reason in its error
\* field, in memory and in the collection.
C11_PermanentErrorFails ==
    (last.op = "process" /\ last.result = "throw")
        => /\ last.doc.status = "failed"
           /\ queue[last.entry].status = "failed"
           /\ queue[last.entry].error # NoError

\* C12: a processor run whose iteration over one entry has ended, with more
\* entries selected, goes on to the next entry, and the outcome of the entry it
\* has handled is in the collection before the next one is started.
C12_BatchIsolation ==
    [][\A p \in PassIds :
          (/\ pass[p].pc \in {"loop", "sending"}
           /\ pass'[p] # pass[p]
           /\ last'.op = "process"
           /\ pass[p].pos < Len(pass[p].sel))
             => /\ ~last'.aborted
                /\ pass'[p].pc = "loop"
                /\ pass'[p].pos = pass[p].pos + 1
                /\ queue'[last'.entry] = last'.doc]_vars

\* C13: for every user and every local day at most one daily_summary entry is
\* scheduled in that day, whatever its status: a digest sweep adds none while
\* one exists.
C13_OneDigestPerDay ==
    \A u \in UserIds, d \in Days :
        Cardinality({i \in 1..Len(queue) :
                        /\ queue[i].user = u
                        /\ queue[i].type = "daily_summary"
                        /\ queue[i].scheduledFor >= d * MinutesPerDay
                        /\ queue[i].scheduledFor < (d + 1) * MinutesPerDay}) <= 1

\* the master switch of a user document
masterSwitchOn(user) == user.exists /\ user.phoneVerified /\ user.whatsappEnabled

C15_StatusChangeOutcome ==
    [][(tasks'["t1"].status # tasks["t1"].status)
          => LET u == tasks["t1"].user
                 user == users[u]
                 n == Len(queue)
             IN  IF \/ ~masterSwitchOn(user)
                    \/ ~user.statusUpdates
                    \/ hasReachedDailyLimit(queue, u, now)
                 THEN ~last'.called /\ queue' = queue
                 ELSE IF ~isQuietHours(user, now)
                 THEN last'.called /\ queue' = queue
                 ELSE /\ ~last'.called
                      /\ Len(queue') = n + 1
                      /\ SubSeq(queue', 1, n) = queue
                      /\ queue'[n + 1].type = "status_change"
                      /\ queue'[n + 1].status = "pending"
                      /\ queue'[n + 1].retryCount = 0]_vars

C17_ScheduledOutsideQuiet ==
    [][\A i \in 1..Len(queue') :
          (i > Len(queue) \/ queue'[i].scheduledFor # queue[i].scheduledFor)
             => ~isQuietHours(users[queue'[i].user], queue'[i].scheduledFor)]_vars

\* C18: isQuietHours agrees with the reference definition: false when start
\* or end is absent; for start <= end, true exactly when start <= now < end;
\* for start > end, true exactly when now >= start or now < end.
C18_QuietMatchesReference ==
    (last.op = "isQuietHours")
        => LET s == users["u1"].quietHoursStart
               e == users["u1"].quietHoursEnd
               m == now % 1440
           IN  last.quiet =
                  IF s = <<>> \/ e = <<>> THEN FALSE
                  ELSE LET a == 60 * s[1] + s[2]
                           b == 60 * e[1] + e[2]
                       IN  IF a <= b THEN a <= m /\ m < b
                           ELSE m >= a \/ m < b

\* the test has answered true before the end of a window that spans midnight
C18_Witness ==
    /\ last.op = "isQuietHours" /\ last.quiet
    /\ users["u1"].quietHoursStart = <<22, 0>>
    /\ users["u1"].quietHoursEnd = <<8, 0>>
    /\ now % 1440 = 360

\* C19: inside the quiet window calculateScheduleTime returns the first
\* instant at or after now whose time of day is quietHoursEnd, and the user
\* is not quiet at that instant; outside it returns the preferred time, or
\* now when none is given.
C19_NextQuietEnd ==
    (last.op = "calculateScheduleTime")
        => LET user == users["u1"]
               r == last.entry
               preferred == last.doc[1]
           IN  IF isQuietHours(user, now)
               THEN /\ r >= now
                    /\ r < now + 1440
                    /\ r % 1440 = 60 * user.quietHoursEnd[1] + user.quietHoursEnd[2]
                    /\ ~isQuietHours(user, r)
               ELSE r = IF preferred = NoTime THEN now ELSE preferred

\* at 23:30 with quiet hours 22:00-08:00 the answer is 08:00 of the next day
C19_Witness ==
    /\ last.op = "calculateScheduleTime"
    /\ users["u1"].quietHoursStart = <<22, 0>>
    /\ users["u1"].quietHoursEnd = <<8, 0>>
    /\ now % 1440 = 1410
    /\ last.entry = (now - 1410) + 1440 + 480

\* C20: a reminder sweep over a task that is due, whose user is eligible and
\* has no pending reminder for it, adds exactly one pending task_reminder for
\* it: scheduled tomorrow 08:00 when the user's daily ceiling is reached, else
\* now (user not quiet) or the next end of the quiet window (user quiet).
C20_ReminderNeverDropped ==
    [][(last'.op = "reminders")
          => \A t \in TaskIds :
                LET u == tasks[t].user
                    added == {i \in (Len(queue) + 1)..Len(queue') :
                                 queue'[i].taskId = t /\ queue'[i].type = "task_reminder"}
                IN  (/\ dueForReminder(tasks[t], now)
                     /\ masterSwitchOn(users[u]) /\ users[u].taskReminders
                     /\ ~\E i \in 1..Len(queue) :
                            /\ queue[i].user = u /\ queue[i].taskId = t
                            /\ queue[i].type = "task_reminder"
                            /\ queue[i].status = "pending")
                    => /\ Cardinality(added) = 1
                       /\ \A i \in added :
                             /\ queue'[i].user = u
                             /\ queue'[i].status = "pending"
                             /\ queue'[i].scheduledFor =
                                   IF Cardinality(sentInDay(queue, u, now \div 1440))
                                          >= MAX_NOTIFICATIONS_PER_DAY
                                   THEN (now \div 1440) * 1440 + 1440 + 480
                                   ELSE IF isQuietHours(users[u], now)
                                   THEN calculateScheduleTime(users[u], NoTime, now)
                                   ELSE now]_vars

\* a sweep has queued a reminder for tomorrow 08:00 for a user whose ceiling
\* was reached today
C20_Witness ==
    /\ last.op = "reminders"
    /\ \E i \in 1..Len(queue), j \in 1..Len(queue) :
          /\ i <= last.entry /\ j > last.entry
          /\ queue[i].status = "sent" /\ queue[i].user = queue[j].user
          /\ queue[i].sentAt \div 1440 = now \div 1440
          /\ queue[j].type = "task_reminder" /\ queue[j].status = "pending"
          /\ queue[j].scheduledFor = (now \div 1440) * 1440 + 1440 + 480

----------------------------------------------------------------------------
(* PUT notification preferences: the request body carries each field as a   *)
(* value, as null, or not at all.                                           *)

\* a field of the body: undefined, null, or a string of the form HH:MM
Omitted == [kind |-> "undefined", value |-> <<>>]
Null == [kind |-> "null", value |-> <<>>]
TimeString(h, m) == [kind |-> "string", value |-> <<h, m>>]

\* bodies of the requests explored: whatsappEnabled as true, false, the
\* string "yes", or omitted; each quiet hour as "22:00", "08:00", "24:00",
\* null, or omitted
RequestBodies ==
    [whatsappEnabled : {"undefined", "true", "false", "yes"},
     quietHoursStart : {Omitted, Null, TimeString(22, 0), TimeString(8, 0), TimeString(24, 0)},
     quietHoursEnd : {Omitted, Null, TimeString(22, 0), TimeString(8, 0), TimeString(24, 0)}]

\* /^([01]\d|2[0-3]):([0-5]\d)$/
isValidTimeFormat(time) == time.value[1] \in 0..23 /\ time.value[2] \in 0..59

\* the checks of updateNotificationPreferences, in the order of the code: the
\* status of the response
validatePreferences(user, body) ==
    LET hasQuietHoursStart == body.quietHoursStart \notin {Omitted, Null}
        hasQuietHoursEnd == body.quietHoursEnd \notin {Omitted, Null}
    IN  IF ~user.exists THEN "404"
        ELSE IF body.whatsappEnabled \notin {"undefined", "true", "false"} THEN "400"
        ELSE IF hasQuietHoursStart /\ ~isValidTimeFormat(body.quietHoursStart) THEN "400"
        ELSE IF hasQuietHoursEnd /\ ~isValidTimeFormat(body.quietHoursEnd) THEN "400"
        ELSE IF hasQuietHoursStart # hasQuietHoursEnd THEN "400"
        ELSE "200"

\* the assignments of an accepted request: a field that is not omitted is
\* written, null included
writePreferences(user, body) ==
    [user EXCEPT
        !.whatsappEnabled = IF body.whatsappEnabled = "undefined" THEN @
                            ELSE body.whatsappEnabled = "true",
        !.quietHoursStart = IF body.quietHoursStart = Omitted THEN @
                            ELSE body.quietHoursStart.value,
        !.quietHoursEnd = IF body.quietHoursEnd = Omitted THEN @
                          ELSE body.quietHoursEnd.value]

updateNotificationPreferences(u) ==
    \E body \in RequestBodies :
       LET response == validatePreferences(users[u], body)
       IN  /\ users' = IF response = "200"
                       THEN [users EXCEPT ![u] = writePreferences(users[u], body)]
                       ELSE users
           /\ last' = [NoLast EXCEPT !.op = "updateNotificationPreferences",
                                     !.user = u, !.doc = <<body>>,
                                     !.response = response]
           /\ UNCHANGED <<now, tasks, queue, pass>>

InitApi ==
    /\ now = 479
    /\ users \in {us \in [UserIds -> {ProfileOn, ProfileNight, ProfileGone}] :
                      us["u2"] = ProfileOn}
    /\ tasks = [t \in TaskIds |->
                  [exists |-> TRUE, user |-> IF t = "t1" THEN "u1" ELSE "u2",
                   status |-> "pending",
                   dueDate |-> IF t = "t1" THEN 1080 ELSE 1440 + 720]]
    /\ queue = <<>>
    /\ pass = [p \in PassIds |-> IdlePass]
    /\ last = NoLast

NextApi == updateNotificationPreferences("u1")

SpecApi == InitApi /\ [][NextApi]_vars

\* C22: after any sequence of requests to updateNotificationPreferences the
\* stored quietHoursStart and quietHoursEnd are both present or both absent,
\* and a request that is rejected leaves the stored preferences unchanged.
C22_QuietHoursPaired ==
    /\ [](\A u \in UserIds :
            (users[u].quietHoursStart = NoHHMM) <=> (users[u].quietHoursEnd = NoHHMM))
    /\ [][(last'.op = "updateNotificationPreferences" /\ last'.response # "200")
             => users' = users]_vars

----------------------------------------------------------------------------
(* sendMessage of the gateway as a function of what the provider answers to *)
(* each call of client.messages.create.                                     *)

MAX_RETRY_ATTEMPTS == 3
RETRY_DELAYS == <<1000, 3000, 9000>>
MaxCalls == 4

\* what the provider answers to a call: the message is accepted, or the call
\* fails with a transient error, with code 21608, or with another code and a
\* message that contains 'not a valid'
ProviderAnswers == {"sent", "error", "21608", "not a valid"}

\* RETRY_DELAYS[retryCount] || RETRY_DELAYS[RETRY_DELAYS.length - 1]
retryDelay(retryCount) ==
    IF retryCount + 1 <= Len(RETRY_DELAYS) THEN RETRY_DELAYS[retryCount + 1]
    ELSE RETRY_DELAYS[Len(RETRY_DELAYS)]

RECURSIVE sendMessageUncapped(_, _, _)
\* sendMessage retrying while retryCount < MAX_RETRY_ATTEMPTS
sendMessageUncapped(configured, answers, retryCount) ==
    IF ~configured
    THEN [result |-> "false", calls |-> 0, waits |-> <<>>]
    ELSE LET answer == answers[retryCount + 1]
         IN  IF answer = "sent"
             THEN [result |-> "true", calls |-> 1, waits |-> <<>>]
             ELSE IF answer = "21608" \/ answer = "not a valid"
             THEN [result |-> "throw", calls |-> 1, waits |-> <<>>]
             ELSE IF retryCount < MAX_RETRY_ATTEMPTS /\ answer # "21608"
             THEN LET r == sendMessageUncapped(configured, answers, retryCount + 1)
                  IN  [r EXCEPT !.calls = @ + 1,
                                !.waits = <<retryDelay(retryCount)>> \o @]
             ELSE [result |-> "false", calls |-> 1, waits |-> <<>>]

RECURSIVE sendMessageAttempt(_, _, _)
\* sendMessage(phoneNumber, message, retryCount): answers[k] is the provider's
\* answer to the k-th call.  result: what the promise settles to; calls: the
\* provider calls made from this attempt on; waits: the delays slept, in ms.
sendMessageAttempt(configured, answers, retryCount) ==
    IF ~configured
    THEN [result |-> "false", calls |-> 0, waits |-> <<>>]
    ELSE LET answer == answers[retryCount + 1]
         IN  IF answer = "sent"
             THEN [result |-> "true", calls |-> 1, waits |-> <<>>]
             ELSE IF answer = "21608" \/ answer = "not a valid"
             THEN [result |-> "throw", calls |-> 1, waits |-> <<>>]
             ELSE IF retryCount < MAX_RETRY_ATTEMPTS - 1 /\ answer # "21608"
             THEN LET r == sendMessageAttempt(configured, answers, retryCount + 1)
                  IN  [r EXCEPT !.calls = @ + 1,
                                !.waits = <<retryDelay(retryCount)>> \o @]
             ELSE [result |-> "false", calls |-> 1, waits |-> <<>>]

\* a call sendMessage(phoneNumber, message) by one of the senders
CallSendMessage ==
    /\ \E configured \in BOOLEAN, answers \in [1..MaxCalls -> ProviderAnswers] :
          LET r == sendMessageAttempt(configured, answers, 0)
          IN  last' = [NoLast EXCEPT !.op = "sendMessage", !.result = r.result,
                                     !.doc = [configured |-> configured,
                                              answers |-> answers,
                                              calls |-> r.calls, waits |-> r.waits]]
    /\ UNCHANGED <<now, users, tasks, queue, pass>>

NextGateway == CallSendMessage

SpecGateway == InitApi /\ [][NextGateway]_vars

\* C23: a call of sendMessage makes at most MAX_RETRY_ATTEMPTS (3) provider
\* calls, sleeping 1 s before the second and 3 s before the third; it stops at
\* the first provider call that is not a transient failure: with true when
\* the provider accepted the message, with the dedicated error when the
\* provider answered 21608; after three transient failures it reports false.
C23_BoundedRetry ==
    (last.op = "sendMessage" /\ last.doc.configured)
        => LET a == last.doc.answers
               decisive == {k \in 1..3 : a[k] # "error" /\ \A j \in 1..(k - 1) : a[j] = "error"}
               calls == last.doc.calls
           IN  /\ calls >= 1 /\ calls <= 3
               /\ last.doc.waits = SubSeq(<<1000, 3000>>, 1, calls - 1)
               /\ \A k \in decisive :
                     /\ calls = k
                     /\ a[k] = "sent" => last.result = "true"
                     /\ a[k] = "21608" => last.result = "throw"
               /\ decisive = {} => (calls = 3 /\ last.result = "false")
               /\ last.result = "true" => a[calls] = "sent"

\* the third provider call succeeded, after waits of 1 s and 3 s
C23_Witness ==
    /\ last.op = "sendMessage" /\ last.result = "true"
    /\ last.doc.calls = 3 /\ last.doc.waits = <<1000, 3000>>

----------------------------------------------------------------------------
(* The processor over a collection larger than its batch: BatchLimit + 1    *)
(* status_change entries of u1, queued on as many nights for the end of the *)
(* quiet window of the next morning, and still pending.                     *)

\* the entry queued for 08:00 of day d
queuedStatusChange(d) ==
    [user |-> "u1", type |-> "status_change", taskId |-> "t1",
     message |-> formatStatusChangeMessage("t1", "completed"),
     scheduledFor |-> d * MinutesPerDay + MorningHour * 60,
     status |-> "pending", retryCount |-> 0, sentAt |-> NoTime, error |-> NoError]

\* days from which a run starts: before, at and after the day on which more
\* than BatchLimit entries are due
BatchDays == {BatchLimit - 10, BatchLimit, BatchLimit + 1, BatchLimit + 2}

InitBatch ==
    /\ now \in {d * MinutesPerDay + 840 : d \in BatchDays}
    /\ users \in {us \in [UserIds -> {ProfileOn, ProfileOff}] : us["u2"] = ProfileOn}
    /\ tasks = [t \in TaskIds |->
                  [exists |-> TRUE, user |-> IF t = "t1" THEN "u1" ELSE "u2",
                   status |-> "completed",
                   dueDate |-> IF t = "t1" THEN 1080 ELSE 1440 + 720]]
    /\ \E r \in 0..BatchLimit :
          queue = [i \in 1..(BatchLimit + 1) |->
                      queuedStatusChange(((i + r) % (BatchLimit + 1)) + 1)]
    /\ pass = [p \in PassIds |-> IdlePass]
    /\ last = NoLast

NextBatch == StartPass(1, FALSE) \/ Dispatch(1)

SpecBatch == InitBatch /\ [][NextBatch]_vars

\* C24: the entries a run of the processor has selected are entries that
\* were pending, due and below three retries when it started; they are at
\* most 50, none of the due entries left out is scheduled before a selected
\* one, and they are taken in non-decreasing order of scheduledFor; a run
\* handles only entries it selected and changes no other entry.
C24_BatchSelection ==
    /\ [](\A p \in PassIds :
            pass[p].pc # "idle"
              => LET P == pass[p]
                     q == P.snap
                     S == {P.sel[a] : a \in 1..Len(P.sel)}
                     due == {i \in 1..Len(q) : /\ q[i].status = "pending"
                                               /\ q[i].scheduledFor <= P.now
                                               /\ q[i].retryCount < 3}
                 IN  /\ S \subseteq due
                     /\ Cardinality(S) = Len(P.sel)
                     /\ Len(P.sel) <= 50
                     /\ (due \ S # {}) => Len(P.sel) = 50
                     /\ \A i \in S, j \in due \ S :
                           q[i].scheduledFor <= q[j].scheduledFor
                     /\ \A a, b \in 1..Len(P.sel) :
                           a < b => q[P.sel[a]].scheduledFor <= q[P.sel[b]].scheduledFor
                     /\ P.pos \in 1..Len(P.sel))
    /\ [][\A p \in PassIds :
              (pass[p].pc # "idle" /\ pass'[p] # pass[p])
                => LET S == {pass[p].sel[a] : a \in 1..Len(pass[p].sel)}
                   IN  /\ last'.entry \in S
                       /\ \A i \in 1..Len(queue) : i \notin S => queue'[i] = queue[i]]_vars

\* a run has selected 50 of 51 due entries, the first of them not the first
\* of the collection
C24_Witness ==
    /\ pass[1].pc = "loop"
    /\ Len(pass[1].sel) = 50
    /\ Cardinality(dueEntries(pass[1].snap, pass[1].now)) = 51
    /\ pass[1].sel[1] # 1

\* C25: a status_change entry that a run of the processor handles for a
\* user who is enabled, not quiet and below the daily ceiling is stored as
\* 'sent' with sentAt set by that step, with its retryCount and scheduledFor
\* as they were, and without a gateway call.
C25_StatusChangeMarkedSent ==
    [][(last'.op = "process" /\ last'.result = "statusChange")
          => LET i == last'.entry
             IN  /\ ~last'.called
                 /\ queue'[i].status = "sent"
                 /\ queue'[i].sentAt # NoTime
                 /\ queue'[i].retryCount = queue[i].retryCount
                 /\ queue'[i].scheduledFor = queue[i].scheduledFor]_vars

\* C26: two runs of the processor that overlap never both call the gateway
\* for the same entry, and no step of a run turns a stored 'sent' entry into
\* anything else.
C26_NoDoubleDispatch ==
    /\ [](\A p, r \in PassIds :
            (p # r /\ pass[p].pc = "sending" /\ pass[r].pc = "sending")
               => pass[p].sel[pass[p].pos] # pass[r].sel[pass[r].pos])
    /\ [][\A i \in 1..Len(queue) :
              queue[i].status = "sent" => queue'[i].status = "sent"]_vars

\* the operation recorded in r transmitted a message through the gateway
transmitted(r) == r.op \in {"status", "process"} /\ r.called /\ r.result = "ok"

\* C27: the messages transmitted to a user on one day never exceed the daily
\* ceiling: with the ceiling at MAX_NOTIFICATIONS_PER_DAY = 1, an operation
\* that has transmitted a message to a user is not followed, at the same
\* instant, by an operation that transmits another one to that user; and
\* every transmission raises the user's count of the day.
C27_TransmissionsWithinCeiling ==
    [][/\ (transmitted(last) /\ now' = now /\ (tasks' # tasks \/ pass' # pass))
            => ~(transmitted(last') /\ last'.user = last.user)
       /\ (transmitted(last') /\ (tasks' # tasks \/ pass' # pass)
              /\ ~transmitted(last))
            => getTodayNotificationCount(queue', last'.user, now)
                  > getTodayNotificationCount(queue, last'.user, now)]_vars

\* C28: at most one reminder is delivered per task: once a reminder of a
\* task has been delivered, no run hands a reminder of that task to the
\* gateway again; and a reminder sweep adds no task_reminder entry for a
\* (user, task) pair that has one with status 'sent'.
C28_OneReminderPerTask ==
    [][/\ (last.op = "process" /\ last.result = "ok" /\ last.doc.type = "task_reminder")
            => ~(/\ last'.op = "dispatch" /\ pass' # pass
                 /\ queue[last'.entry].type = "task_reminder"
                 /\ queue[last'.entry].taskId = last.doc.taskId)
       /\ (last'.op = "reminders")
            => \A i \in 1..Len(queue), j \in (Len(queue) + 1)..Len(queue') :
                  (queue[i].type = "task_reminder" /\ queue[i].status = "sent")
                     => ~(/\ queue'[j].type = "task_reminder"
                          /\ queue'[j].user = queue[i].user
                          /\ queue'[j].taskId = queue[i].taskId)]_vars

\* C30: a run of the processor that has delivered a task reminder through
\* the gateway has delivered it for a task that is not 'completed'.
C30_NoReminderForCompletedTask ==
    (/\ last.op = "process" /\ last.called /\ last.result = "ok"
     /\ last.doc.type = "task_reminder")
        => tasks[last.doc.taskId].status # "completed"

----------------------------------------------------------------------------
(* The queue under its schedule: the hourly reminder sweep fills it, the    *)
(* processor is started every five minutes for as long as the service runs, *)
(* every run that has started goes on to its end, and time advances.        *)

NextFair ==
    \/ Tick
    \/ ReminderSweep
    \/ StartPass(1, FALSE)
    \/ Dispatch(1)
    \/ Complete(1)

SpecFair ==
    /\ Init
    /\ [][NextFair]_vars
    /\ WF_vars(Tick)
    /\ WF_vars(StartPass(1, FALSE))
    /\ WF_vars(Dispatch(1))
    /\ WF_vars(Complete(1))

\* C29: with the processor run again and again and time advancing, every
\* entry that is pending is eventually 'sent' or 'failed'.
C29_PendingEventuallySettled ==
    \A i \in 1..MaxQueue :
        (i <= Len(queue) /\ queue[i].status = "pending")
            ~> (i <= Len(queue) /\ queue[i].status \in {"sent", "failed"})
====
